---- MODULE Spec2Model ----
(***************************************************************************)
(* Titanic passenger API: the in-memory dataset (DataService) and the      *)
(* percentile fare histogram (FareHistogramCalculator).                    *)
(*                                                                         *)
(* Numbers.  A fare or an age is a Python float; the model holds it as a   *)
(* whole number of cents.  Comparisons, sorting and counting depend only   *)
(* on the order of the values, which the scaling keeps.  The percentile    *)
(* label of a bucket is the one place where the code's double arithmetic   *)
(* decides the value that is returned, so it is modelled as IEEE-754       *)
(* binary64 arithmetic (section "binary64").                               *)
(***************************************************************************)
EXTENDS Integers, Sequences, FiniteSets, TLC

VARIABLES
    source,     \* the file or database the loader reads
    app,        \* the application: "starting", "running" or "failed"
    cache,      \* lru_cache of get_data_service: "empty" or "instance"
    loads,      \* how many times a loader has read the source
    data,       \* DataService.data
    columns,    \* DataService.columns
    resp        \* the answer to the last call

vars == <<source, app, cache, loads, data, columns, resp>>

\* what a query of a constructed service leaves alone besides the dataset
startup == <<source, app, cache, loads>>

(***************************************************************************)
(* Bounds of the model.                                                    *)
(***************************************************************************)
\* most rows of a dataset whose rows may fail validation
MaxRows == 2
\* most rows of a dataset of valid passengers with fares
MaxFareRows == 3
\* the fares of those passengers are 0..MaxFare cents
MaxFare == 2
\* bucket counts asked for: MinPercentiles - 1 .. MinPercentiles + PctSpan,
\* and MaxPercentiles, MaxPercentiles + 1
PctSpan == 6

(***************************************************************************)
(* Program constants.                                                      *)
(***************************************************************************)
\* validate_percentiles: percentiles not in range(5, 101)
MinPercentiles == 5
MaxPercentiles == 100
\* get_fare_histogram endpoint: Query(10, ge=5, le=100)
QueryGe == 5
QueryLe == 100
\* HTTP status codes: the handler's return, value_error_handler, and the
\* framework's answer to a query parameter outside ge..le
StatusOk == 200
StatusBadRequest == 400
StatusUnprocessable == 422

(***************************************************************************)
(* Cells.  A cell of a loaded row is None, an int, a float (in cents) or   *)
(* a str.  The three payload fields are always present so that any two     *)
(* cells can be compared.                                                  *)
(***************************************************************************)
NoneCell == [t |-> "none", n |-> 0, s |-> ""]
IntCell(k) == [t |-> "int", n |-> k, s |-> ""]
FloatCell(c) == [t |-> "float", n |-> c, s |-> ""]
StrCell(x) == [t |-> "str", n |-> 0, s |-> x]

\* csv.DictReader files the cells beyond the header under the key None
\* (restkey), which is no str and so no column name, as a list
RestKey == "(None)"
ListCell(count) == [t |-> "list", n |-> count, s |-> ""]

\* the cents of one unit: FloatCell(k * Cents) is the float k.0
Cents == 100

(***************************************************************************)
(* binary64.  A positive double is sig * 2^(exp - 52) with                 *)
(* 2^52 <= sig < 2^53.  sig is held as four 16-bit limbs, least            *)
(* significant first, because TLC evaluates with 32-bit integers.            *)
(***************************************************************************)
LimbBase == 2 ^ 16

\* x * k for a small k (k < 2^14)
BigMul(x, k) ==
    LET c1 == x[1] * k
        c2 == x[2] * k + (c1 \div LimbBase)
        c3 == x[3] * k + (c2 \div LimbBase)
        c4 == x[4] * k + (c3 \div LimbBase)
    IN  <<c1 % LimbBase, c2 % LimbBase, c3 % LimbBase, c4>>

\* quotient and remainder of x by a small d (0 < d < 2^14)
BigDivMod(x, d) ==
    LET t4 == x[4]
        t3 == (t4 % d) * LimbBase + x[3]
        t2 == (t3 % d) * LimbBase + x[2]
        t1 == (t2 % d) * LimbBase + x[1]
    IN  [q |-> <<t1 \div d, t2 \div d, t3 \div d, t4 \div d>>, r |-> t1 % d]

\* x + 1
BigInc(x) ==
    LET c1 == x[1] + 1
        c2 == x[2] + (c1 \div LimbBase)
        c3 == x[3] + (c2 \div LimbBase)
        c4 == x[4] + (c3 \div LimbBase)
    IN  <<c1 % LimbBase, c2 % LimbBase, c3 % LimbBase, c4>>

\* 2^k as limbs, 0 <= k < 64
BigPow2(k) == [j \in 1..4 |-> IF j = (k \div 16) + 1 THEN 2 ^ (k % 16) ELSE 0]

\* number of binary digits of a small n
RECURSIVE BitLength(_)
BitLength(n) == IF n = 0 THEN 0 ELSE 1 + BitLength(n \div 2)

\* round to nearest, ties to even.  The exact value is x (plus a nonzero part
\* below its last bit when sticky), 2^52 <= x < 2^64, scaled by 2^(exp - 52).
\* Bit 52 of x is bit 4 of its fourth limb, so x has BitLength(x[4] \div 32)
\* bits more than the 53 a double keeps.
RoundNearestEven(x, sticky, exp) ==
    LET s == BitLength(x[4] \div 32)
        d == BigDivMod(x, 2 ^ s)
        half == (2 ^ s) \div 2
        up == IF s = 0 THEN FALSE
              ELSE \/ d.r > half
                   \/ d.r = half /\ sticky
                   \/ d.r = half /\ ~sticky /\ d.q[1] % 2 = 1
        m == IF up THEN BigInc(d.q) ELSE d.q
    IN  IF m[4] >= 32
        THEN [sig |-> BigDivMod(m, 2).q, exp |-> exp + s + 1]
        ELSE [sig |-> m, exp |-> exp + s]

\* largest e with b * 2^e <= a, for 0 < b <= a
RECURSIVE Log2Ratio(_, _, _)
Log2Ratio(a, b, e) == IF b * (2 ^ (e + 1)) <= a THEN Log2Ratio(a, b, e + 1) ELSE e

\* the double a / b of two ints, 0 < b <= a < 2^14 (Python's true division
\* is correctly rounded)
DoubleDiv(a, b) ==
    LET e == Log2Ratio(a, b, 0)
        d == BigDivMod(BigMul(BigPow2(53 - e), a), b)
    IN  RoundNearestEven(d.q, d.r # 0, e - 1)
            \* d.q has 54 bits; its last bit and the remainder decide the rounding

\* the double k * x for an int 0 < k < 2^7 and a double x
DoubleMulInt(k, x) == RoundNearestEven(BigMul(x.sig, k), FALSE, x.exp)

\* the double of an int 0 < k < 2^14
DoubleOfInt(k) == DoubleDiv(k, 1)

\* x <= y for two doubles
DoubleLeq(x, y) ==
    \/ x.exp < y.exp
    \/ /\ x.exp = y.exp
       /\ \/ x.sig = y.sig
          \/ \E j \in 1..4 : /\ x.sig[j] < y.sig[j]
                             /\ \A h \in (j + 1)..4 : x.sig[h] = y.sig[h]

(***************************************************************************)
(* Rows.  A loaded row is a dict from column names to cells.               *)
(***************************************************************************)
\* the fields of app.models.passenger.Passenger, in declaration order
PassengerFields ==
    <<"PassengerId", "Survived", "Pclass", "Name", "Sex", "Age",
      "SibSp", "Parch", "Ticket", "Fare", "Cabin", "Embarked">>

SeqToSet(q) == {q[i] : i \in 1..Len(q)}

\* dict.get(key): the cell, or None when the row has no such key
Get(row, key) == IF key \in DOMAIN row THEN row[key] ELSE NoneCell

\* a row that passes validation, with the given id and Fare cell
\* (the first record of the test fixture sample_data)
SampleRow(id, fare) ==
    [c \in SeqToSet(PassengerFields) |->
        CASE c = "PassengerId" -> IntCell(id)
          [] c = "Survived" -> IntCell(0)
          [] c = "Pclass" -> IntCell(3)
          [] c = "Name" -> StrCell("John Doe")
          [] c = "Sex" -> StrCell("male")
          [] c = "Age" -> FloatCell(22 * Cents)
          [] c = "SibSp" -> IntCell(1)
          [] c = "Parch" -> IntCell(0)
          [] c = "Ticket" -> StrCell("A123")
          [] c = "Fare" -> fare
          [] c = "Cabin" -> NoneCell
          [] OTHER -> StrCell("S")]

(***************************************************************************)
(* DataService.get_fare_data                                               *)
(***************************************************************************)
\* isinstance(fare, (int, float))
IsNumber(cell) == cell.t \in {"int", "float"}

\* float(fare), in cents
ToFloat(cell) == IF cell.t = "int" THEN cell.n * Cents ELSE cell.n

RECURSIVE get_fare_data(_)
get_fare_data(rows) ==
    IF rows = <<>> THEN <<>>
    ELSE LET fare == Get(Head(rows), "Fare")
             rest == get_fare_data(Tail(rows))
         IN  IF fare # NoneCell /\ IsNumber(fare) /\ fare.n >= 0
             THEN <<ToFloat(fare)>> \o rest
             ELSE rest

(***************************************************************************)
(* PercentileCalculator and FareHistogramCalculator                        *)
(***************************************************************************)
\* sorted(data): ascending, duplicates kept
RECURSIVE Insert(_, _)
Insert(v, q) ==
    IF q = <<>> THEN <<v>>
    ELSE IF v <= Head(q) THEN <<v>> \o q
    ELSE <<Head(q)>> \o Insert(v, Tail(q))

RECURSIVE sorted(_)
sorted(q) == IF q = <<>> THEN <<>> ELSE Insert(Head(q), sorted(Tail(q)))

\* percentile_index with the quotient taken over num + 1 points
percentile_index_short(i, num, n) == (i * (n - 1)) \div (num + 1)

\* index = int(percentile / 100 * (len(sorted_data) - 1)), percentile = i * 100 / num.
\* The index only selects a position.  For fewer than nine values the double
\* expression equals the floor of the exact quotient i * (n - 1) / num for every
\* num in 5..100 and every i in 0..num; the datasets of the model stay below that.
percentile_index(i, num, n) == (i * (n - 1)) \div num

calculate_percentiles(values, num_percentiles) ==
    IF values = <<>> THEN <<>>
    ELSE LET sorted_data == sorted(values)
         IN  [k \in 1..(num_percentiles + 1) |->
                sorted_data[percentile_index(k - 1, num_percentiles, Len(sorted_data)) + 1]]

\* count_values_in_range without the inclusive upper bound of the last bucket
count_values_in_range_exclusive(values, lower, upper, is_last_bucket) ==
    Cardinality({j \in 1..Len(values) : lower <= values[j] /\ values[j] < upper})

\* count_values_in_range that leaves out a value equal to the lower bound
count_values_in_range_open_lower(values, lower, upper, is_last_bucket) ==
    IF is_last_bucket
    THEN Cardinality({j \in 1..Len(values) : lower < values[j] /\ values[j] <= upper})
    ELSE Cardinality({j \in 1..Len(values) : lower < values[j] /\ values[j] < upper})

\* count_values_in_range with the inclusive upper bound for every bucket
count_values_in_range_inclusive(values, lower, upper, is_last_bucket) ==
    Cardinality({j \in 1..Len(values) : lower <= values[j] /\ values[j] <= upper})

count_values_in_range(values, lower, upper, is_last_bucket) ==
    IF is_last_bucket
    THEN Cardinality({j \in 1..Len(values) : lower <= values[j] /\ values[j] <= upper})
    ELSE Cardinality({j \in 1..Len(values) : lower <= values[j] /\ values[j] < upper})

\* fare_range = f"{lower_bound:.2f} - {upper_bound:.2f}": the two bounds written
\* with two decimals, which for a whole number of cents is that number of cents
fare_range(lower_bound, upper_bound) == <<lower_bound, upper_bound>>

\* percentile_value = (i + 1) * (100 / percentiles) is a product of doubles:
\* the quotient 100 / percentiles is rounded, and so is its product with i + 1
create_histogram_buckets(values, boundaries, percentiles) ==
    LET step == DoubleDiv(100, percentiles)
    IN  [k \in 1..(Len(boundaries) - 1) |->
            LET lower_bound == boundaries[k]
                upper_bound == boundaries[k + 1]
            IN  [percentile |-> DoubleMulInt(k, step),
                 count |-> count_values_in_range(values, lower_bound, upper_bound,
                                                 k - 1 = Len(boundaries) - 2),
                 fare_range |-> fare_range(lower_bound, upper_bound)]]

\* validate_percentiles with range(5, 100)
validate_percentiles_raises_exclusive(percentiles) ==
    percentiles \notin MinPercentiles..(MaxPercentiles - 1)

\* validate_percentiles: TRUE when it raises
validate_percentiles_raises(percentiles) ==
    percentiles \notin MinPercentiles..MaxPercentiles

\* an exception: its type, its message without the values it quotes, and those values
ValueError(message, detail) == [type |-> "ValueError", message |-> message, detail |-> detail]
NoError == [type |-> "", message |-> "", detail |-> <<>>]

Returned(value) == [outcome |-> "returned", value |-> value]
ReturnedNone == [outcome |-> "none", value |-> <<>>]
Raised(error) == [outcome |-> "raised", value |-> error]

\* calculate with the two checks in the other order
calculate_empty_first(values, percentiles) ==
    IF values = <<>>
    THEN Raised(ValueError("No fare data available for histogram", <<>>))
    ELSE IF validate_percentiles_raises(percentiles)
    THEN Raised(ValueError("Percentiles must be between 5 and 100, value provided", <<percentiles>>))
    ELSE LET boundaries == calculate_percentiles(values, percentiles)
         IN  Returned([data |-> create_histogram_buckets(values, boundaries, percentiles),
                       total_passengers |-> Len(values)])

\* FareHistogramCalculator.calculate
calculate(values, percentiles) ==
    IF validate_percentiles_raises(percentiles)
    THEN Raised(ValueError("Percentiles must be between 5 and 100, value provided", <<percentiles>>))
    ELSE IF values = <<>>
    THEN Raised(ValueError("No fare data available for histogram", <<>>))
    ELSE LET boundaries == calculate_percentiles(values, percentiles)
         IN  Returned([data |-> create_histogram_buckets(values, boundaries, percentiles),
                       total_passengers |-> Len(values)])

(***************************************************************************)
(* app.models.passenger.Passenger, the model DataService validates with    *)
(* (pydantic, lax mode).  Its fields are typed and carry no range          *)
(* constraint.                                                             *)
(***************************************************************************)
IntFields == {"PassengerId", "Survived", "Pclass", "SibSp", "Parch"}
FloatFields == {"Age", "Fare"}
RequiredFields == {"PassengerId", "Survived", "Pclass", "Name", "Sex", "SibSp", "Parch", "Ticket"}

\* the texts of the model that int() accepts, with their values
IntTexts == {"0", "1", "2", "3", "22"}
IntOfText(x) ==
    CASE x = "0" -> 0
      [] x = "1" -> 1
      [] x = "2" -> 2
      [] x = "3" -> 3
      [] OTHER -> 22

\* the texts of the model that float() accepts, with their values in cents
FloatTexts == IntTexts \cup {"7.25"}
FloatOfText(x) == IF x = "7.25" THEN 725 ELSE IntOfText(x) * Cents

\* what a field makes of a cell it rejects
Rejected == [t |-> "rejected", n |-> 0, s |-> ""]

\* the cell as the field's type, or Rejected
Coerce(field, cell) ==
    IF cell = NoneCell
    THEN IF field \in RequiredFields THEN Rejected ELSE NoneCell
    ELSE IF field \in IntFields
    THEN CASE cell.t = "int" -> cell
           [] cell.t = "float" /\ cell.n % Cents = 0 -> IntCell(cell.n \div Cents)
           [] cell.t = "str" /\ cell.s \in IntTexts -> IntCell(IntOfText(cell.s))
           [] OTHER -> Rejected
    ELSE IF field \in FloatFields
    THEN CASE cell.t = "int" -> FloatCell(cell.n * Cents)
           [] cell.t = "float" -> cell
           [] cell.t = "str" /\ cell.s \in FloatTexts -> FloatCell(FloatOfText(cell.s))
           [] OTHER -> Rejected
    ELSE IF cell.t = "str" THEN cell ELSE Rejected

\* Passenger(**row) raises: a field rejects its cell, or a key of the row is
\* no str (TypeError: keywords must be strings)
PassengerRaises(row) ==
    \/ \E f \in SeqToSet(PassengerFields) : Coerce(f, Get(row, f)) = Rejected
    \/ RestKey \in DOMAIN row

\* Passenger(**row), for a row it accepts; keys that are no field are ignored
Passenger(row) == [f \in SeqToSet(PassengerFields) |-> Coerce(f, Get(row, f))]

\* the constraints app.schemas.responses.Passenger puts on the fields of a
\* passenger p: PassengerId gt 0, Survived Literal[0, 1], Pclass ge 1 le 3,
\* Sex Literal["male", "female"], Age, SibSp, Parch and Fare ge 0
PassengerConstraints(p) ==
    /\ p["PassengerId"].n > 0
    /\ p["Survived"].n \in {0, 1}
    /\ p["Pclass"].n >= 1 /\ p["Pclass"].n <= 3
    /\ p["Sex"].s \in {"male", "female"}
    /\ p["Age"] = NoneCell \/ p["Age"].n >= 0
    /\ p["SibSp"].n >= 0
    /\ p["Parch"].n >= 0
    /\ p["Fare"] = NoneCell \/ p["Fare"].n >= 0

(***************************************************************************)
(* app.utils.validators                                                    *)
(***************************************************************************)
validate_passenger_id_raises(passenger_id) == passenger_id <= 0

\* [attr for attr in attributes if attr not in available_columns]
InvalidAttributes(attributes, available_columns) ==
    SelectSeq(attributes, LAMBDA attr : attr \notin SeqToSet(available_columns))

\* validate_attributes that rejects a list only when none of its names is a column
validate_attributes_any_known(attributes, available_columns) ==
    IF attributes = <<>>
    THEN ValueError("At least one attribute must be specified, empty attributes list provided", <<>>)
    ELSE IF Len(InvalidAttributes(attributes, available_columns)) = Len(attributes)
    THEN ValueError("Invalid attributes requested",
                    InvalidAttributes(attributes, available_columns))
    ELSE NoError

\* validate_attributes: the error it raises, or NoError
validate_attributes(attributes, available_columns) ==
    IF attributes = <<>>
    THEN ValueError("At least one attribute must be specified, empty attributes list provided", <<>>)
    ELSE IF InvalidAttributes(attributes, available_columns) # <<>>
    THEN ValueError("Invalid attributes requested",
                    InvalidAttributes(attributes, available_columns))
    ELSE NoError

(***************************************************************************)
(* DataService                                                             *)
(***************************************************************************)
\* row.get("PassengerId") == passenger_id
IdEquals(row, passenger_id) ==
    LET cell == Get(row, "PassengerId")
    IN  \/ cell.t = "int" /\ cell.n = passenger_id
        \/ cell.t = "float" /\ cell.n = passenger_id * Cents

\* get_all_passengers that gives up at the first row Passenger rejects
RECURSIVE get_all_passengers_until_invalid(_)
get_all_passengers_until_invalid(rows) ==
    IF rows = <<>> THEN <<>>
    ELSE IF PassengerRaises(Head(rows)) THEN <<>>
    ELSE <<Passenger(Head(rows))>> \o get_all_passengers_until_invalid(Tail(rows))

RECURSIVE get_all_passengers(_)
get_all_passengers(rows) ==
    IF rows = <<>> THEN <<>>
    ELSE IF PassengerRaises(Head(rows))
    THEN get_all_passengers(Tail(rows))
    ELSE <<Passenger(Head(rows))>> \o get_all_passengers(Tail(rows))

\* the loop of get_passenger_by_id going on to later rows when Passenger rejects a match
RECURSIVE find_passenger_next_match(_, _)
find_passenger_next_match(rows, passenger_id) ==
    IF rows = <<>> THEN ReturnedNone
    ELSE IF IdEquals(Head(rows), passenger_id) /\ ~PassengerRaises(Head(rows))
    THEN Returned(Passenger(Head(rows)))
    ELSE find_passenger_next_match(Tail(rows), passenger_id)

\* the loop of get_passenger_by_id, from the first row on
RECURSIVE find_passenger(_, _)
find_passenger(rows, passenger_id) ==
    IF rows = <<>> THEN ReturnedNone
    ELSE IF IdEquals(Head(rows), passenger_id)
    THEN IF PassengerRaises(Head(rows)) THEN ReturnedNone
         ELSE Returned(Passenger(Head(rows)))
    ELSE find_passenger(Tail(rows), passenger_id)

get_passenger_by_id(rows, passenger_id) ==
    IF validate_passenger_id_raises(passenger_id)
    THEN Raised(ValueError("Passenger ID must be positive, ID provided", <<passenger_id>>))
    ELSE find_passenger(rows, passenger_id)

\* the loop of get_passenger_attributes answering None for a row Passenger rejects
RECURSIVE find_attributes_validated(_, _, _)
find_attributes_validated(rows, passenger_id, attributes) ==
    IF rows = <<>> THEN ReturnedNone
    ELSE IF IdEquals(Head(rows), passenger_id)
    THEN IF PassengerRaises(Head(rows)) THEN ReturnedNone
         ELSE Returned([attr \in SeqToSet(attributes) |-> Get(Head(rows), attr)])
    ELSE find_attributes_validated(Tail(rows), passenger_id, attributes)

\* the loop of get_passenger_attributes, from the first row on
RECURSIVE find_attributes(_, _, _)
find_attributes(rows, passenger_id, attributes) ==
    IF rows = <<>> THEN ReturnedNone
    ELSE IF IdEquals(Head(rows), passenger_id)
    THEN Returned([attr \in SeqToSet(attributes) |-> Get(Head(rows), attr)])
    ELSE find_attributes(Tail(rows), passenger_id, attributes)

get_passenger_attributes(rows, cols, passenger_id, attributes) ==
    IF validate_passenger_id_raises(passenger_id)
    THEN Raised(ValueError("Passenger ID must be positive, ID provided", <<passenger_id>>))
    ELSE IF validate_attributes(attributes, cols) # NoError
    THEN Raised(validate_attributes(attributes, cols))
    ELSE find_attributes(rows, passenger_id, attributes)

\* get_columns returning self.columns itself
get_columns_no_copy(cols) ==
    [outcome |-> "returned", value |-> cols, shares |-> {"columns"}]

\* get_columns: self.columns.copy(), an equal list that is a new object
get_columns(cols) ==
    [outcome |-> "returned", value |-> cols, shares |-> {}]

(***************************************************************************)
(* The service after construction, and its queries.                        *)
(***************************************************************************)
\* no query answered yet
NoResponse == [op |-> "", args |-> <<>>, outcome |-> "", value |-> <<>>, shares |-> {}]

\* shares: the fields of the service ("data", "columns") whose list is the very
\* object that was returned; every query but get_columns builds its result anew
Response(op, args, result) ==
    [op |-> op, args |-> args, outcome |-> result.outcome, value |-> result.value,
     shares |-> IF "shares" \in DOMAIN result THEN result.shares ELSE {}]

\* datasets of valid passengers numbered in source order: every choice of
\* fares in 0..MaxFare cents, or no fare at all
FareDatasets ==
    UNION {{[i \in 1..n |-> SampleRow(i, FloatCell(f[i]))] : f \in [1..n -> 0..MaxFare]}
             \cup {[i \in 1..n |-> SampleRow(i, NoneCell)]} : n \in 1..MaxFareRows}

\* rows as a load leaves them: a valid passenger, one without a fare, one whose
\* Name is missing, one whose Fare text was no number, one whose survival flag
\* is neither 0 nor 1 and one whose fare is negative
RowIds == {1, 2}
Rows ==
    UNION {{SampleRow(id, FloatCell(725)),
            SampleRow(id, NoneCell),
            [SampleRow(id, FloatCell(805)) EXCEPT !["Name"] = NoneCell],
            SampleRow(id, StrCell("abc")),
            [SampleRow(id, FloatCell(725)) EXCEPT !["Survived"] = IntCell(5)],
            SampleRow(id, FloatCell(0 - Cents))} : id \in RowIds}

\* validate_data_not_empty: a service holds at least one row
Datasets == UNION {[1..n -> Rows] : n \in 1..MaxRows}

\* the bucket counts a histogram is asked for
PercentileInputs ==
    ((MinPercentiles - 1)..(MinPercentiles + PctSpan)) \cup {MaxPercentiles, MaxPercentiles + 1}

\* the ids and the attribute lists a query is made with
IdInputs == {0} \cup RowIds \cup {3}
AttributeInputs ==
    {<<>>, <<"Name">>, <<"Fare", "Cabin">>, <<"Deck">>, <<"Name", "Deck">>}

\* a service constructed from a loader that DataLoaderFactory.register_loader
\* added: its rows come from no file of the model
RegisteredSource == [kind |-> "registered", state |-> "table", header |-> <<>>, rows |-> <<>>]

\* the application after a startup that succeeded
Started ==
    /\ source = RegisteredSource
    /\ app = "running"
    /\ cache = "instance"
    /\ loads = 1

Init ==
    /\ Started
    /\ data \in Datasets
    /\ columns = PassengerFields
    /\ resp = NoResponse

InitHistogram ==
    /\ Started
    /\ data \in FareDatasets
    /\ columns = PassengerFields
    /\ resp = NoResponse

GetAllPassengers ==
    /\ resp' = Response("get_all_passengers", <<>>, Returned(get_all_passengers(data)))
    /\ UNCHANGED <<data, columns>>
    /\ UNCHANGED startup

GetPassengerById(passenger_id) ==
    /\ resp' = Response("get_passenger_by_id", <<passenger_id>>,
                        get_passenger_by_id(data, passenger_id))
    /\ UNCHANGED <<data, columns>>
    /\ UNCHANGED startup

GetPassengerAttributes(passenger_id, attributes) ==
    /\ resp' = Response("get_passenger_attributes", <<passenger_id, attributes>>,
                        get_passenger_attributes(data, columns, passenger_id, attributes))
    /\ UNCHANGED <<data, columns>>
    /\ UNCHANGED startup

GetFareData ==
    /\ resp' = Response("get_fare_data", <<>>, Returned(get_fare_data(data)))
    /\ UNCHANGED <<data, columns>>
    /\ UNCHANGED startup

\* AnalyticsService.get_fare_histogram(percentiles)
GetFareHistogram(percentiles) ==
    /\ resp' = Response("get_fare_histogram", <<percentiles>>,
                        calculate(get_fare_data(data), percentiles))
    /\ UNCHANGED <<data, columns>>
    /\ UNCHANGED startup

GetColumns ==
    /\ resp' = Response("get_columns", <<>>, get_columns(columns))
    /\ UNCHANGED <<data, columns>>
    /\ UNCHANGED startup

\* the queries whose result is a list
ListQueries == {"get_all_passengers", "get_fare_data", "get_columns"}

\* The caller empties the list a query returned (list.clear()).  A field of
\* the service changes with it exactly when the list is that field's object.
CallerClearsResult ==
    /\ resp.op \in ListQueries
    /\ resp.outcome = "returned"
    /\ resp' = [op |-> "list.clear", args |-> <<resp.op>>, outcome |-> "returned",
                value |-> <<>>, shares |-> resp.shares]
    /\ data' = IF "data" \in resp.shares THEN <<>> ELSE data
    /\ columns' = IF "columns" \in resp.shares THEN <<>> ELSE columns
    /\ UNCHANGED startup

Next ==
    \/ GetAllPassengers
    \/ \E passenger_id \in IdInputs : GetPassengerById(passenger_id)
    \/ \E passenger_id \in IdInputs, attributes \in AttributeInputs :
          GetPassengerAttributes(passenger_id, attributes)
    \/ GetFareData
    \/ GetColumns
    \/ GetFareHistogram(MinPercentiles)
    \/ CallerClearsResult

\* GET /passengers/analytics/fare-histogram?percentiles=..., with the ValueError
\* handler the application installs
fare_histogram_endpoint(rows, percentiles) ==
    IF percentiles < QueryGe \/ percentiles > QueryLe
    THEN [status_code |-> StatusUnprocessable, content |-> [detail |-> "query parameter out of range"]]
    ELSE LET result == calculate(get_fare_data(rows), percentiles)
         IN  IF result.outcome = "raised"
             THEN [status_code |-> StatusBadRequest, content |-> [detail |-> result.value.message]]
             ELSE [status_code |-> StatusOk, content |-> result.value]

RequestFareHistogram(percentiles) ==
    /\ resp' = [op |-> "GET fare-histogram", args |-> <<percentiles>>,
                outcome |-> "response",
                value |-> fare_histogram_endpoint(data, percentiles),
                shares |-> {}]
    /\ UNCHANGED <<data, columns>>
    /\ UNCHANGED startup

NextHistogram ==
    \/ \E percentiles \in PercentileInputs : GetFareHistogram(percentiles)
    \/ \E percentiles \in PercentileInputs : RequestFareHistogram(percentiles)

Spec == Init /\ [][Next]_vars

SpecHistogram == InitHistogram /\ [][NextHistogram]_vars

(***************************************************************************)
(* Loaders.  A source is a file or a database: its kind, its state, and    *)
(* for a table its header and its rows.  A row of a CSV file is the list   *)
(* of the texts of its cells; a row of a database table is a dict of       *)
(* typed cells.                                                            *)
(***************************************************************************)
\* most rows of a source
MaxSourceRows == 2

\* csv.DictReader: the dict of one line.  A cell the line lacks is None (restval).
DictReader(fieldnames, cells) ==
    [key \in SeqToSet(fieldnames) \cup
              (IF Len(cells) > Len(fieldnames) THEN {RestKey} ELSE {}) |->
        IF key = RestKey THEN ListCell(Len(cells) - Len(fieldnames))
        ELSE LET i == CHOOSE j \in 1..Len(fieldnames) : fieldnames[j] = key
             IN  IF i <= Len(cells) THEN StrCell(cells[i]) ELSE NoneCell]

numeric_fields == {"PassengerId", "Survived", "Pclass", "SibSp", "Parch"}
float_fields == {"Age", "Fare"}

\* _convert_types on one cell: int() or float() of a non-empty text of a
\* declared column, the text itself when the conversion raises, and None for
\* the texts "" and "None"
convert_cell(field, cell) ==
    LET converted ==
            IF cell.t = "str" /\ cell.s # ""
            THEN IF field \in numeric_fields /\ cell.s \in IntTexts
                 THEN IntCell(IntOfText(cell.s))
                 ELSE IF field \in float_fields /\ cell.s \in FloatTexts
                 THEN FloatCell(FloatOfText(cell.s))
                 ELSE cell
            ELSE cell
    IN  IF converted = StrCell("") \/ converted = StrCell("None")
        THEN NoneCell
        ELSE converted

\* CSVDataLoader._convert_types
convert_types(row) == [key \in DOMAIN row |-> convert_cell(key, row[key])]

\* CSVDataLoader.load_data: open() raises FileNotFoundError for a missing file;
\* any other exception (PermissionError from open(), UnicodeDecodeError from
\* the reader) is reported with the text of the exception
CSVDataLoader_load_data(src) ==
    CASE src.state = "missing" ->
            Raised(ValueError("CSV file not found", <<>>))
      [] src.state = "unreadable" ->
            Raised(ValueError("Error reading CSV file", <<"Permission denied">>))
      [] src.state = "undecodable" ->
            Raised(ValueError("Error reading CSV file", <<"codec can't decode byte">>))
      [] OTHER ->
            Returned([data |-> [i \in 1..Len(src.rows) |->
                                   convert_types(DictReader(src.header, src.rows[i]))],
                      columns |-> src.header])

\* SQLiteDataLoader.load_data: sqlite3.connect creates a database file that is
\* missing, so the SELECT fails as it does for a database without the table;
\* it raises when the directory is missing.  The cells are stored as read.
SQLiteDataLoader_load_data(src) ==
    CASE src.state \in {"missing", "no_table"} ->
            Raised(ValueError("Error reading SQLite database", <<"no such table: passengers">>))
      [] src.state = "unreachable" ->
            Raised(ValueError("Error reading SQLite database", <<"unable to open database file">>))
      [] src.state = "not_a_database" ->
            Raised(ValueError("Error reading SQLite database", <<"file is not a database">>))
      [] OTHER ->
            Returned([data |-> src.rows, columns |-> src.header])

\* DataLoaderFactory.create_loader(data_source).load_data()
load_data(src) ==
    IF src.kind = "csv" THEN CSVDataLoader_load_data(src)
    ELSE SQLiteDataLoader_load_data(src)

\* DataService() without validate_data_not_empty
DataService_unvalidated(src) == load_data(src)

\* DataService(): _load_data, then validate_data_not_empty
DataService(src) ==
    LET loaded == load_data(src)
    IN  IF loaded.outcome = "raised" THEN loaded
        ELSE IF loaded.value.data = <<>>
        THEN Raised(ValueError("No data available", <<>>))
        ELSE loaded

\* get_data_service constructing a service at every call
get_data_service_uncached(cch, rows, cols, src) ==
    LET made == DataService(src)
    IN  IF made.outcome = "raised"
        THEN [error |-> made.value, data |-> rows, columns |-> cols,
              cache |-> cch, loads |-> 1]
        ELSE [error |-> NoError, data |-> made.value.data, columns |-> made.value.columns,
              cache |-> "instance", loads |-> 1]

\* get_data_service under lru_cache: the cached instance, or a new DataService
\* that is cached when its construction returns.  loads is the number of loads
\* the call makes.
get_data_service(cch, rows, cols, src) ==
    IF cch = "instance"
    THEN [error |-> NoError, data |-> rows, columns |-> cols, cache |-> cch, loads |-> 0]
    ELSE LET made == DataService(src)
         IN  IF made.outcome = "raised"
             THEN [error |-> made.value, data |-> rows, columns |-> cols,
                   cache |-> cch, loads |-> 1]
             ELSE [error |-> NoError, data |-> made.value.data,
                   columns |-> made.value.columns, cache |-> "instance", loads |-> 1]

\* a line of a CSV file: the cells of the fixture's first record as texts
CsvLine(id, survived, fare, cabin) ==
    <<id, survived, "3", "John Doe", "male", "22", "1", "0", "A123", fare, cabin, "S">>

\* the lines a file is made of: a full line with an empty Cabin, one with the
\* Cabin "None" and one with "NULL"; a Fare and a Survived that are no numbers;
\* a line one cell short and a line one cell long
CsvLines ==
    {CsvLine("1", "0", "7.25", ""),
     CsvLine("2", "1", "7.25", "None"),
     CsvLine("2", "1", "22", "NULL"),
     CsvLine("1", "0", "abc", ""),
     CsvLine("2", "abc", "7.25", ""),
     SubSeq(CsvLine("1", "0", "7.25", ""), 1, 11),
     CsvLine("2", "1", "7.25", "") \o <<"x">>}

\* the rows of a database table: a NULL Cabin, an empty text and the text "NULL"
TableRows ==
    {SampleRow(1, FloatCell(725)),
     [SampleRow(2, FloatCell(725)) EXCEPT !["Cabin"] = StrCell("")],
     [SampleRow(2, FloatCell(805)) EXCEPT !["Cabin"] = StrCell("NULL")]}

CsvSources ==
    {[kind |-> "csv", state |-> st, header |-> <<>>, rows |-> <<>>] :
        st \in {"missing", "unreadable", "undecodable"}}
    \cup UNION {{[kind |-> "csv", state |-> "table", header |-> PassengerFields, rows |-> r] :
                    r \in [1..n -> CsvLines]} : n \in 0..MaxSourceRows}

SQLiteSources ==
    {[kind |-> "sqlite", state |-> st, header |-> <<>>, rows |-> <<>>] :
        st \in {"missing", "unreachable", "no_table", "not_a_database"}}
    \cup UNION {{[kind |-> "sqlite", state |-> "table", header |-> PassengerFields, rows |-> r] :
                    r \in [1..n -> TableRows]} : n \in 0..MaxSourceRows}

\* the process before lifespan runs
InitLoad ==
    /\ source \in CsvSources \/ source \in SQLiteSources
    /\ app = "starting"
    /\ cache = "empty"
    /\ loads = 0
    /\ data = <<>>
    /\ columns = <<>>
    /\ resp = NoResponse

\* what Depends(get_data_service) and lifespan's call leave behind
Called(svc) ==
    /\ loads' = loads + svc.loads
    /\ cache' = svc.cache
    /\ data' = svc.data
    /\ columns' = svc.columns
    /\ UNCHANGED source

\* lifespan: get_data_service() before the application serves; an exception
\* is raised again and the application does not start.  (DATA_SOURCE is "csv"
\* or "sqlite", so validate_configuration passes.)
Startup ==
    /\ app = "starting"
    /\ LET svc == get_data_service(cache, data, columns, source)
       IN  /\ Called(svc)
           /\ app' = IF svc.error = NoError THEN "running" ELSE "failed"
           /\ resp' = Response("lifespan", <<>>,
                                IF svc.error = NoError THEN ReturnedNone
                                ELSE Raised(svc.error))

\* GET /passengers/
RequestAllPassengers ==
    /\ app = "running"
    /\ LET svc == get_data_service(cache, data, columns, source)
       IN  /\ Called(svc)
           /\ UNCHANGED app
           /\ resp' = Response("GET passengers", <<>>,
                                IF svc.error # NoError THEN Raised(svc.error)
                                ELSE Returned(get_all_passengers(svc.data)))

\* GET /passengers/{passenger_id}
RequestPassenger(passenger_id) ==
    /\ app = "running"
    /\ LET svc == get_data_service(cache, data, columns, source)
       IN  /\ Called(svc)
           /\ UNCHANGED app
           /\ resp' = Response("GET passenger", <<passenger_id>>,
                                IF svc.error # NoError THEN Raised(svc.error)
                                ELSE get_passenger_by_id(svc.data, passenger_id))

\* GET /passengers/{passenger_id}/attributes
RequestPassengerAttributes(passenger_id, attributes) ==
    /\ app = "running"
    /\ LET svc == get_data_service(cache, data, columns, source)
       IN  /\ Called(svc)
           /\ UNCHANGED app
           /\ resp' = Response("GET attributes", <<passenger_id, attributes>>,
                                IF svc.error # NoError THEN Raised(svc.error)
                                ELSE get_passenger_attributes(svc.data, svc.columns,
                                                              passenger_id, attributes))

NextLoad ==
    \/ Startup
    \/ RequestAllPassengers
    \/ \E passenger_id \in IdInputs : RequestPassenger(passenger_id)
    \/ \E passenger_id \in IdInputs, attributes \in AttributeInputs :
          RequestPassengerAttributes(passenger_id, attributes)

SpecLoad == InitLoad /\ [][NextLoad]_vars

(***************************************************************************)
(* Properties of the fare histogram (checked under SpecHistogram).         *)
(***************************************************************************)
\* the service call returned a histogram
HistogramReturned == resp.op = "get_fare_histogram" /\ resp.outcome = "returned"

\* the values the histogram was computed from
FareValues == get_fare_data(data)

RECURSIVE SumCounts(_)
SumCounts(buckets) ==
    IF buckets = <<>> THEN 0 ELSE Head(buckets).count + SumCounts(Tail(buckets))

MaxOf(values) == CHOOSE m \in SeqToSet(values) : \A v \in SeqToSet(values) : v <= m

Occurrences(values, v) == Cardinality({j \in 1..Len(values) : values[j] = v})

\* C1: the counts of the buckets of a returned histogram add up to
\* total_passengers, which is the number of fare values it was computed from.
C1_CountsSumToTotal ==
    HistogramReturned =>
        /\ SumCounts(resp.value.data) = resp.value.total_passengers
        /\ resp.value.total_passengers = Len(FareValues)

\* C1 witness: a histogram over MaxFareRows values in which a bucket before the
\* last one and the last one both count values
C1_Witness ==
    /\ HistogramReturned
    /\ Len(FareValues) = MaxFareRows
    /\ resp.value.data[Len(resp.value.data)].count > 0
    /\ \E k \in 1..(Len(resp.value.data) - 1) : resp.value.data[k].count > 0

\* C2: the upper bound of the last bucket of a returned histogram is the largest
\* fare value, and the last bucket counts every occurrence of that value.
C2_MaximumInLastBucket ==
    HistogramReturned =>
        LET last == resp.value.data[Len(resp.value.data)]
        IN  /\ last.fare_range[2] = MaxOf(FareValues)
            /\ last.fare_range[1] <= MaxOf(FareValues)
            /\ last.count >= Occurrences(FareValues, MaxOf(FareValues))

\* C2 witness: the largest value occurs twice, below it lies a smaller value
C2_Witness ==
    /\ HistogramReturned
    /\ Occurrences(FareValues, MaxOf(FareValues)) = 2
    /\ \E j \in 1..Len(FareValues) : FareValues[j] < MaxOf(FareValues)

\* C3: a returned histogram has bucket_count buckets, bucket i (from 0) is
\* labelled (i + 1) * 100 / bucket_count, the labels do not decrease and the
\* last label is 100.
C3_PercentileLabels ==
    HistogramReturned =>
        LET buckets == resp.value.data
            bucket_count == resp.args[1]
        IN  /\ Len(buckets) = bucket_count
            /\ \A k \in 1..Len(buckets) :
                  buckets[k].percentile = DoubleDiv(k * 100, bucket_count)
            /\ \A k \in 1..(Len(buckets) - 1) :
                  DoubleLeq(buckets[k].percentile, buckets[k + 1].percentile)
            /\ buckets[Len(buckets)].percentile = DoubleOfInt(100)

\* C4: boundary i of a returned histogram is the linear interpolation of the
\* sorted values at position i * (n - 1) / bucket_count.  With lo the whole part
\* and rem / bucket_count the fraction of the position,
\* bucket_count * boundary = bucket_count * sorted[lo] + rem * (sorted[lo + 1] - sorted[lo]).
C4_LinearInterpolation ==
    HistogramReturned =>
        LET buckets == resp.value.data
            bucket_count == resp.args[1]
            ordered == sorted(FareValues)
            n == Len(ordered)
            boundary(i) == IF i = 0 THEN buckets[1].fare_range[1]
                           ELSE buckets[i].fare_range[2]
            lo(i) == (i * (n - 1)) \div bucket_count
            rem(i) == (i * (n - 1)) % bucket_count
        IN  \A i \in 0..bucket_count :
                bucket_count * boundary(i) =
                    IF rem(i) = 0 THEN bucket_count * ordered[lo(i) + 1]
                    ELSE bucket_count * ordered[lo(i) + 1]
                         + rem(i) * (ordered[lo(i) + 2] - ordered[lo(i) + 1])

\* the service call was made on a dataset without any fare value
EmptyHistogramCall == resp.op = "get_fare_histogram" /\ FareValues = <<>>

\* C5 as stated: a histogram call on an empty list of values fails with the
\* empty-input error, whatever the bucket count.
C5_EmptyInputAlways ==
    EmptyHistogramCall =>
        /\ resp.outcome = "raised"
        /\ resp.value.message = "No fare data available for histogram"

\* C5 amended: a histogram call on an empty list of values never returns a
\* histogram; with a bucket count in 5..100 it fails with the empty-input error,
\* whose message differs from that of the bucket-count error, and with a bucket
\* count outside 5..100 it fails with the bucket-count error, which is checked first.
C5_EmptyInputAfterBucketCount ==
    EmptyHistogramCall =>
        /\ resp.outcome = "raised"
        /\ resp.value.type = "ValueError"
        /\ IF resp.args[1] \in 5..100
           THEN /\ resp.value.message = "No fare data available for histogram"
                /\ resp.value.message # calculate(<<1>>, 4).value.message
           ELSE resp.value.message = "Percentiles must be between 5 and 100, value provided"

\* C5 witness: the empty-input error for a valid bucket count
C5_Witness ==
    /\ EmptyHistogramCall
    /\ resp.args[1] \in 5..100
    /\ resp.outcome = "raised"

\* C6: a histogram request with a bucket count below 5 or above 100 is rejected
\* with the bucket-count error (status 422 at the endpoint) and yields no
\* histogram; a bucket count in 5..100 is never rejected for its value, and
\* yields a histogram whenever there is a fare value.
C6_BucketCountRange ==
    /\ resp.op = "get_fare_histogram" =>
          IF resp.args[1] < 5 \/ resp.args[1] > 100
          THEN /\ resp.outcome = "raised"
               /\ resp.value.type = "ValueError"
               /\ resp.value.message = "Percentiles must be between 5 and 100, value provided"
          ELSE IF FareValues = <<>>
          THEN resp.outcome = "raised"
               /\ resp.value.message # "Percentiles must be between 5 and 100, value provided"
          ELSE resp.outcome = "returned" /\ Len(resp.value.data) = resp.args[1]
    /\ resp.op = "GET fare-histogram" =>
          IF resp.args[1] < 5 \/ resp.args[1] > 100
          THEN resp.value.status_code = 422
          ELSE IF FareValues = <<>>
          THEN resp.value.status_code = 400
          ELSE resp.value.status_code = 200 /\ Len(resp.value.content.data) = resp.args[1]

\* C6 witness: the largest accepted bucket count yields a histogram
C6_Witness ==
    /\ HistogramReturned
    /\ resp.args[1] = 100

(***************************************************************************)
(* Properties of the dataset queries (checked under Spec).                 *)
(***************************************************************************)
\* the positions of the rows whose PassengerId cell is the int id
RowsWithId(id) ==
    {i \in 1..Len(data) : data[i]["PassengerId"].t = "int" /\ data[i]["PassengerId"].n = id}

FirstRowWithId(id) == CHOOSE i \in RowsWithId(id) : \A j \in RowsWithId(id) : i <= j

\* C7: get_passenger_by_id raises for an id <= 0; for an id > 0 it returns the
\* Passenger of the first row with that id, and None when no row has the id or
\* when Passenger rejects that first row, whatever the later rows are.
C7_PassengerById ==
    resp.op = "get_passenger_by_id" =>
        LET id == resp.args[1]
        IN  IF id <= 0
            THEN resp.outcome = "raised" /\ resp.value.type = "ValueError"
            ELSE IF RowsWithId(id) = {} THEN resp.outcome = "none"
            ELSE IF PassengerRaises(data[FirstRowWithId(id)]) THEN resp.outcome = "none"
            ELSE /\ resp.outcome = "returned"
                 /\ resp.value = Passenger(data[FirstRowWithId(id)])

\* C7 witness: the first row with the id is rejected, a later row with the same
\* id is a valid passenger, and the answer is None
C7_Witness ==
    /\ resp.op = "get_passenger_by_id"
    /\ resp.outcome = "none"
    /\ resp.args[1] > 0
    /\ \E i, j \in RowsWithId(resp.args[1]) :
          i < j /\ i = FirstRowWithId(resp.args[1])
                /\ PassengerRaises(data[i]) /\ ~PassengerRaises(data[j])

\* C8: get_passenger_attributes raises whenever a requested name is no column
\* of the dataset, whether or not a row has the id; it returns no mapping.
C8_UnknownAttributeRaises ==
    (/\ resp.op = "get_passenger_attributes"
     /\ \E k \in 1..Len(resp.args[2]) : resp.args[2][k] \notin SeqToSet(columns)) =>
        /\ resp.outcome = "raised"
        /\ resp.value.type = "ValueError"

\* C8 witness: a known and an unknown name are asked of an id that a row has
C8_Witness ==
    /\ resp.op = "get_passenger_attributes"
    /\ resp.outcome = "raised"
    /\ RowsWithId(resp.args[1]) # {}
    /\ \E k \in 1..Len(resp.args[2]) : resp.args[2][k] \notin SeqToSet(columns)
    /\ \E k \in 1..Len(resp.args[2]) : resp.args[2][k] \in SeqToSet(columns)

\* C9: for an id > 0 and a non-empty list of column names, get_passenger_attributes
\* returns the cells of the first row with the id under the requested names, also
\* when Passenger rejects that row, and None only when no row has the id.
C9_RawAttributes ==
    (/\ resp.op = "get_passenger_attributes"
     /\ resp.args[1] > 0
     /\ resp.args[2] # <<>>
     /\ \A k \in 1..Len(resp.args[2]) : resp.args[2][k] \in SeqToSet(columns)) =>
        LET id == resp.args[1]
            names == SeqToSet(resp.args[2])
        IN  IF RowsWithId(id) = {} THEN resp.outcome = "none"
            ELSE /\ resp.outcome = "returned"
                 /\ DOMAIN resp.value = names
                 /\ \A a \in names : resp.value[a] = data[FirstRowWithId(id)][a]

\* C9 witness: the cells of a row that Passenger rejects are returned, one of them None
C9_Witness ==
    /\ resp.op = "get_passenger_attributes"
    /\ resp.outcome = "returned"
    /\ PassengerRaises(data[FirstRowWithId(resp.args[1])])
    /\ \E a \in DOMAIN resp.value : resp.value[a] = NoneCell

\* the positions of the rows Passenger accepts
ValidRows == {i \in 1..Len(data) : ~PassengerRaises(data[i])}

\* C10: get_all_passengers never raises; it returns the Passenger of every row
\* that Passenger accepts and of no other row, in the order of the rows.
C10_AllPassengers ==
    resp.op = "get_all_passengers" =>
        /\ resp.outcome = "returned"
        /\ Len(resp.value) = Cardinality(ValidRows)
        /\ \A i \in ValidRows :
              resp.value[Cardinality({j \in ValidRows : j <= i})] = Passenger(data[i])

\* C10 witness: a rejected row precedes an accepted one, which alone is returned
C10_Witness ==
    /\ resp.op = "get_all_passengers"
    /\ Len(resp.value) = 1
    /\ \E i, j \in 1..Len(data) : i < j /\ i \notin ValidRows /\ j \in ValidRows

\* C11: a row that breaks a constraint of the passenger record (identifier not
\* positive, survival flag not 0 or 1, class outside 1..3, sex not male or
\* female, negative age, fare or count) is in no result of get_all_passengers
\* and is never returned by get_passenger_by_id.
C11_ConstraintRowsExcluded ==
    /\ resp.op = "get_all_passengers" =>
          \A k \in 1..Len(resp.value) : PassengerConstraints(resp.value[k])
    /\ (resp.op = "get_passenger_by_id" /\ resp.outcome = "returned") =>
          PassengerConstraints(resp.value)

\* the floats of the Fare cells that are neither None nor a str, in row order
RECURSIVE NumericFares(_)
NumericFares(rows) ==
    IF rows = <<>> THEN <<>>
    ELSE LET cell == Get(Head(rows), "Fare")
         IN  IF cell.t \in {"int", "float"}
             THEN <<ToFloat(cell)>> \o NumericFares(Tail(rows))
             ELSE NumericFares(Tail(rows))

\* C14: get_fare_data returns, in row order, the float of the Fare cell of every
\* row whose cell is a number, and nothing for a row whose cell is None or no
\* number: no numeric cell is left out.
C14_NumericColumn ==
    resp.op = "get_fare_data" =>
        /\ resp.outcome = "returned"
        /\ resp.value = NumericFares(data)

(***************************************************************************)
(* Bucket membership (checked under SpecHistogram).                        *)
(***************************************************************************)
\* value v lies in bucket k of the returned histogram: from its lower bound up
\* to, but not including, its upper bound, which the last bucket includes
InBucket(v, k) ==
    LET bucket == resp.value.data[k]
    IN  /\ bucket.fare_range[1] <= v
        /\ IF k = Len(resp.value.data) THEN v <= bucket.fare_range[2]
                                       ELSE v < bucket.fare_range[2]

\* C18: in a returned histogram the upper bound of a bucket is the lower bound
\* of the next and no smaller than its own lower bound; the count of a bucket is
\* the number of values v with lower <= v < upper, and with lower <= v <= upper
\* for the last bucket; every value lies in exactly one bucket.
C18_BucketMembership ==
    HistogramReturned =>
        LET buckets == resp.value.data
        IN  /\ \A k \in 1..Len(buckets) :
                  /\ buckets[k].fare_range[1] <= buckets[k].fare_range[2]
                  /\ k < Len(buckets) =>
                        buckets[k].fare_range[2] = buckets[k + 1].fare_range[1]
                  /\ buckets[k].count =
                        Cardinality({j \in 1..Len(FareValues) : InBucket(FareValues[j], k)})
            /\ \A j \in 1..Len(FareValues) :
                  Cardinality({k \in 1..Len(buckets) : InBucket(FareValues[j], k)}) = 1

\* C18 witness: a value equals the upper bound of a bucket that is not the last
\* and not empty, so the value is counted in a later bucket
C18_Witness ==
    /\ HistogramReturned
    /\ \E k \in 1..(Len(resp.value.data) - 1), j \in 1..Len(FareValues) :
          /\ resp.value.data[k].count > 0
          /\ FareValues[j] = resp.value.data[k].fare_range[2]

\* all the values the histogram was asked for are the same, and there is one
IdenticalValues ==
    /\ FareValues # <<>>
    /\ \A j \in 1..Len(FareValues) : FareValues[j] = FareValues[1]

\* C20: when all values are identical, a histogram call with a bucket count in
\* 5..100 returns a histogram; both bounds of every bucket are that value, every
\* bucket but the last counts 0 and the last counts all the values.
C20_IdenticalValues ==
    (/\ resp.op = "get_fare_histogram"
     /\ resp.args[1] \in 5..100
     /\ IdenticalValues) =>
        /\ resp.outcome = "returned"
        /\ \A k \in 1..Len(resp.value.data) :
              /\ resp.value.data[k].fare_range = <<FareValues[1], FareValues[1]>>
              /\ resp.value.data[k].count =
                    IF k = Len(resp.value.data) THEN Len(FareValues) ELSE 0

\* C20 witness: MaxFareRows identical values and the largest bucket count
C20_Witness ==
    /\ HistogramReturned
    /\ IdenticalValues
    /\ Len(FareValues) = MaxFareRows
    /\ resp.args[1] = 100

(***************************************************************************)
(* The dataset after the load (checked under Spec).                        *)
(***************************************************************************)
\* C15: no step of a constructed service changes the rows of the dataset, their
\* order, their cells or the column list: not a query (get_all_passengers,
\* get_passenger_by_id, get_passenger_attributes, get_fare_data, get_columns,
\* the fare histogram), in any order, and not a caller that changes a list it
\* was returned.
C15_DatasetUnchanged == [][data' = data /\ columns' = columns]_vars

\* C15 witness: the caller has emptied the list get_columns returned, and the
\* service still holds its columns and its rows
C15_Witness ==
    /\ resp.op = "list.clear"
    /\ resp.args = <<"get_columns">>
    /\ columns = PassengerFields
    /\ Len(data) = MaxRows

(***************************************************************************)
(* Properties of the load and of the startup (checked under SpecLoad).     *)
(***************************************************************************)
\* the position of a column in the header of the source
ColumnIndex(name) == CHOOSE j \in 1..Len(source.header) : source.header[j] = name

\* the text of the cell of line i of a CSV source under a column, for a line
\* that has such a cell
HasText(i, name) == ColumnIndex(name) <= Len(source.rows[i])
TextOf(i, name) == source.rows[i][ColumnIndex(name)]

\* the startup has loaded a CSV file, or a database table
LoadedCsv == app = "running" /\ source.kind = "csv"
LoadedTable == app = "running" /\ source.kind = "sqlite"

\* C12: after the load of a CSV file every line is a row of the dataset, and a
\* cell of a declared int or float column whose text is not empty and is no
\* number is None in that row.
C12_FailedConversionIsNull ==
    LoadedCsv =>
        /\ Len(data) = Len(source.rows)
        /\ \A i \in 1..Len(source.rows) :
              /\ \A f \in numeric_fields :
                    (HasText(i, f) /\ TextOf(i, f) # "" /\ TextOf(i, f) \notin IntTexts)
                        => data[i][f] = NoneCell
              /\ \A f \in float_fields :
                    (HasText(i, f) /\ TextOf(i, f) # "" /\ TextOf(i, f) \notin FloatTexts)
                        => data[i][f] = NoneCell

\* the texts that stand for null
Sentinels == {"", "None", "NULL", "null", "none", "Null"}

\* C13: after the load, a cell whose text in the source is a sentinel ("",
\* "None", "NULL", "null" or a case variant) is None in the loaded row, in
\* every column, for a CSV file and for a database table.
C13_SentinelsAreNull ==
    /\ LoadedCsv =>
          \A i \in 1..Len(source.rows), name \in SeqToSet(source.header) :
              (HasText(i, name) /\ TextOf(i, name) \in Sentinels)
                  => data[i][name] = NoneCell
    /\ LoadedTable =>
          \A i \in 1..Len(source.rows), name \in SeqToSet(source.header) :
              (source.rows[i][name].t = "str" /\ source.rows[i][name].s \in Sentinels)
                  => data[i][name] = NoneCell

\* the source could not be opened / was opened and is no table of passengers
Unavailable(src) == src.state \in {"missing", "unreadable", "unreachable"}
Corrupt(src) == src.state \in {"undecodable", "no_table", "not_a_database"}

\* C17: the error of a load that fails because the source cannot be opened
\* differs from the error of every load of a source of the same kind that
\* opens and cannot be parsed, and so for the other way round.
C17_LoadErrorKinds ==
    (app = "failed" /\ (Unavailable(source) \/ Corrupt(source))) =>
        \A other \in (IF source.kind = "csv" THEN CsvSources ELSE SQLiteSources) :
            ((Unavailable(source) /\ Corrupt(other)) \/ (Corrupt(source) /\ Unavailable(other)))
                => load_data(other).value # resp.value

\* C19: after a load that succeeded every key of every row of the dataset is
\* one of the columns of the dataset, also for a line of a CSV file with more
\* or fewer cells than the header.
C19_RowKeysAreColumns ==
    app = "running" =>
        \A i \in 1..Len(data) : DOMAIN data[i] \subseteq SeqToSet(columns)

\* a request has been answered
Served == resp.op \in {"GET passengers", "GET passenger", "GET attributes"}

\* C16: the source is loaded at most once.  Before the startup nothing is
\* loaded and nothing served; a request is served only by an application whose
\* startup loaded the source once, with success, and it is answered from that
\* load's rows; after a load that failed the application has not started and
\* the last answer is the startup's error.
C16_OneLoadBeforeQueries ==
    /\ loads <= 1
    /\ app = "starting" => (loads = 0 /\ resp = NoResponse)
    /\ app = "failed" =>
          /\ loads = 1
          /\ resp.op = "lifespan" /\ resp.outcome = "raised"
          /\ DataService(source).outcome = "raised"
    /\ Served =>
          /\ app = "running"
          /\ loads = 1
          /\ cache = "instance"
          /\ DataService(source).outcome = "returned"
          /\ data = DataService(source).value.data
          /\ columns = DataService(source).value.columns

\* C16 witness: a passenger was returned to a request, after one load
C16_Witness ==
    /\ resp.op = "GET passenger"
    /\ resp.outcome = "returned"
    /\ loads = 1

\* the source is a table without any row
EmptySource == source.state = "table" /\ source.rows = <<>>

\* C21: a service that is cached, and so every service that answers a request,
\* holds at least one row.  The startup on a source without rows fails with the
\* error of validate_data_not_empty, the application does not run, no request
\* is served and no instance is cached.
C21_NonEmptyDataset ==
    /\ cache = "instance" => Len(data) >= 1
    /\ app = "running" => (cache = "instance" /\ Len(data) >= 1)
    /\ Served => Len(data) >= 1
    /\ (EmptySource /\ app # "starting") =>
          /\ app = "failed"
          /\ cache = "empty"
          /\ resp.op = "lifespan"
          /\ resp.outcome = "raised"
          /\ resp.value = ValueError("No data available", <<>>)

\* C21 witness: the startup on a database table without rows has failed and
\* has left the cache empty
C21_Witness ==
    /\ EmptySource
    /\ source.kind = "sqlite"
    /\ app = "failed"
    /\ cache = "empty"
    /\ loads = 1

====
